---------------------------- MODULE Spec2Model ----------------------------
(***************************************************************************)
(* Notification-scheme event reconciliation of the Jira adapter:           *)
(*   notification_events.ts   (isNotificationScheme, getEventKey,          *)
(*                             getEventChanges, deployEvents)              *)
(*   notification_scheme_deployment.ts  (filter: preDeploy, deploy,        *)
(*                             onDeploy)                                   *)
(*                                                                         *)
(* Conventions.  An optional JavaScript value is a sequence of length at   *)
(* most one: <<>> is undefined, <<v>> is the defined value v.  A JS object *)
(* used as a string-keyed map (notificationIds) is a set of <<key, id>>    *)
(* pairs with at most one pair per key.  Snapshots hold resolved values    *)
(* (event type references already replaced by the event type id).  The    *)
(* remote calls issued are kept as a bag.                                  *)
(***************************************************************************)
EXTENDS Integers, Sequences, FiniteSets, Bags, TLC

(***************************************************************************)
(* Bounds of the model.                                                    *)
(***************************************************************************)
\* notifications in one declarative snapshot (over all its scheme events)
MaxEntries == 2
\* size of the input of one run: the notifications of the before and the
\* after snapshot together, plus two for every change of the batch after
\* the first
MaxTotal == 3
\* changes in one deploy batch
MaxChanges == 2

(***************************************************************************)
(* Input domains.                                                          *)
(***************************************************************************)
EventTypeIds == {10, 20}
\* declarative notification descriptors: channel type and optional parameter
NotificationKinds ==
  { [type |-> "EmailAddress", parameter |-> <<>>],
    [type |-> "EmailAddress", parameter |-> <<"x">>],
    [type |-> "GroupCustomFieldll", parameter |-> <<"x">>] }
\* remote id of the scheme (numbers are written as their decimal string)
SchemeIds == {"10000"}

(***************************************************************************)
(* Generic sequence helpers (lodash / Array.prototype).                    *)
(***************************************************************************)
Range(s) == {s[i] : i \in 1..Len(s)}

RECURSIVE Flatten(_)
Flatten(ss) ==
  IF ss = <<>> THEN <<>> ELSE Head(ss) \o Flatten(Tail(ss))

Map(s, Op(_)) == [i \in 1..Len(s) |-> Op(s[i])]

RECURSIVE Uniq(_)
Uniq(s) ==
  IF s = <<>> THEN <<>>
  ELSE LET r == Uniq(SubSeq(s, 1, Len(s) - 1))
           x == s[Len(s)]
       IN  IF x \in Range(r) THEN r ELSE Append(r, x)

\* JS template-literal / toString of an optional string
Stringify(opt) == IF opt = <<>> THEN "undefined" ELSE opt[1]

(***************************************************************************)
(* notification_events.ts                                                  *)
(***************************************************************************)
\* EVENT_TYPES[t] ?? t
EVENT_TYPES(t) ==
  IF t = "GroupCustomFieldll" THEN "Group_Custom_Field_Value" ELSE t

\* `${event.eventType}-${event.type}-${event.parameter}`
getEventKey(event) ==
  ToString(event.eventType) \o "-" \o event.type \o "-" \o Stringify(event.parameter)

\* lookup in an optional string-keyed object: obj?.[key]
Lookup(ids, key) ==
  IF ids.defined /\ \E p \in ids.map : p[1] = key
  THEN <<(CHOOSE p \in ids.map : p[1] = key)[2]>>
  ELSE <<>>

\* (instanceValues.notificationSchemeEvents ?? []).flatMap(event =>
\*    (event.notifications ?? []).map(notification => ({...})))
getEventsValues(instanceValues) ==
  LET OfEvent(event) ==
        LET OfNotification(notification) ==
              [eventType |-> event.eventType,
               type      |-> notification.type,
               parameter |-> notification.parameter,
               id        |-> <<>>]   \* declarative notifications carry no id
        IN  Map(event.notifications, OfNotification)
  IN  Flatten(Map(instanceValues.notificationSchemeEvents, OfEvent))

\* convertValuesToJSPBody without the filter on event.eventType: the
\* notifications of every scheme event are collected
convertValuesToJSPBody_Unfiltered(values, instanceValue) ==
  LET type == EVENT_TYPES(values.type)
  IN  [event         |-> [id |-> values.eventType],
       notifications |-> Flatten(Map(instanceValue.notificationSchemeEvents,
                                     LAMBDA event : event.notifications)),
       id            |-> values.id,
       schemeId      |-> instanceValue.id,
       name          |-> values.name,
       eventTypeIds  |-> values.eventType,
       type          |-> type,
       typeField     |-> values.parameter]

\* _.pickBy({event, notifications, id, schemeId, name, eventTypeIds, type,
\*           [type]: values.parameter?.toString()}, isDefined)
\* The field named by the channel type is kept as typeField.
convertValuesToJSPBody(values, instanceValue) ==
  LET type == EVENT_TYPES(values.type)
      sameType == SelectSeq(instanceValue.notificationSchemeEvents,
                            LAMBDA event : event.eventType = values.eventType)
  IN  [event         |-> [id |-> values.eventType],
       notifications |-> Flatten(Map(sameType, LAMBDA event : event.notifications)),
       id            |-> values.id,
       schemeId      |-> instanceValue.id,
       name          |-> values.name,
       eventTypeIds  |-> values.eventType,
       type          |-> type,
       typeField     |-> values.parameter]

\* new InstanceElement(getEventKey(event), eventType, convertValuesToJSPBody(...))
getEventInstances(instanceValue) ==
  LET OfEvent(event) ==
        [elemName |-> getEventKey(event),
         value    |-> convertValuesToJSPBody(
                        [eventType |-> event.eventType,
                         type      |-> event.type,
                         parameter |-> event.parameter,
                         name      |-> getEventKey(event),
                         id        |-> Lookup(instanceValue.notificationIds,
                                              getEventKey(event))],
                        instanceValue)]
  IN  Map(getEventsValues(instanceValue), OfEvent)

\* instance.elemID.getFullName(): adapter.typeName.instance.name
getFullName(instance) ==
  "jira.NotificationEvent.instance." \o instance.elemName

\* the instances kept as a list of pairs, one per instance, instead of an
\* object keyed by full name
keyBy_KeepsDuplicates(instances) ==
  [i \in 1..Len(instances) |->
     [key |-> getFullName(instances[i]), value |-> instances[i]]]

\* _.keyBy(instances, getFullName): one entry per key, in order of first
\* occurrence of the key, holding the last instance that has the key
keyBy(instances) ==
  LET names == Uniq(Map(instances, getFullName))
      Last(k) == instances[CHOOSE i \in 1..Len(instances) :
                    /\ getFullName(instances[i]) = k
                    /\ \A j \in (i + 1)..Len(instances) :
                          getFullName(instances[j]) # k]
  IN  [i \in 1..Len(names) |-> [key |-> names[i], value |-> Last(names[i])]]

HasKey(keyed, k) == \E i \in 1..Len(keyed) : keyed[i].key = k

\* Object.values(keyed)
Values(keyed) == [i \in 1..Len(keyed) |-> keyed[i].value]

\* getEventChanges with both maps looked up by a name that is not their key
\* (the lookups never find an instance)
getEventChanges_LookupMisses(change) ==
  LET eventInstancesBefore ==
        keyBy(IF change.action = "modify"
              THEN getEventInstances(change.before)
              ELSE <<>>)
      eventInstancesAfter  == keyBy(getEventInstances(change.after))
      newEvents == Values(eventInstancesAfter)
      removedEvents == Values(eventInstancesBefore)
  IN  Map(removedEvents, LAMBDA event : [action |-> "remove", data |-> event])
      \o Map(newEvents, LAMBDA event : [action |-> "add", data |-> event])

\* getEventChanges with newEvents not filtered against the before map
getEventChanges_EveryAfterIsNew(change) ==
  LET eventInstancesBefore ==
        keyBy(IF change.action = "modify"
              THEN getEventInstances(change.before)
              ELSE <<>>)
      eventInstancesAfter  == keyBy(getEventInstances(change.after))
      newEvents == Values(eventInstancesAfter)
      removedEvents == SelectSeq(Values(eventInstancesBefore),
                     LAMBDA instance :
                       ~HasKey(eventInstancesAfter, getFullName(instance)))
  IN  Map(removedEvents, LAMBDA event : [action |-> "remove", data |-> event])
      \o Map(newEvents, LAMBDA event : [action |-> "add", data |-> event])

\* getEventChanges with removedEvents filtered against the before map
\* instead of the after map
getEventChanges_RemovedAgainstBefore(change) ==
  LET eventInstancesBefore ==
        keyBy(IF change.action = "modify"
              THEN getEventInstances(change.before)
              ELSE <<>>)
      eventInstancesAfter  == keyBy(getEventInstances(change.after))
      newEvents == SelectSeq(Values(eventInstancesAfter),
                     LAMBDA instance :
                       ~HasKey(eventInstancesBefore, getFullName(instance)))
      removedEvents == SelectSeq(Values(eventInstancesBefore),
                     LAMBDA instance :
                       ~HasKey(eventInstancesBefore, getFullName(instance)))
  IN  Map(removedEvents, LAMBDA event : [action |-> "remove", data |-> event])
      \o Map(newEvents, LAMBDA event : [action |-> "add", data |-> event])

\* getEventChanges of a change [action, before, after]: removals first,
\* then additions
getEventChanges(change) ==
  LET eventInstancesBefore ==
        keyBy(IF change.action = "modify"
              THEN getEventInstances(change.before)
              ELSE <<>>)
      eventInstancesAfter  == keyBy(getEventInstances(change.after))
      newEvents == SelectSeq(Values(eventInstancesAfter),
                     LAMBDA instance :
                       ~HasKey(eventInstancesBefore, getFullName(instance)))
      removedEvents == SelectSeq(Values(eventInstancesBefore),
                     LAMBDA instance :
                       ~HasKey(eventInstancesAfter, getFullName(instance)))
  IN  Map(removedEvents, LAMBDA event : [action |-> "remove", data |-> event])
      \o Map(newEvents, LAMBDA event : [action |-> "add", data |-> event])

(***************************************************************************)
(* Shape validation.  A decoded JSON payload is                            *)
(*   [isObject, notificationSchemeEvents : optional array value]           *)
(* an array value is [isArray, items]; a scheme event is                   *)
(*   [event : optional [id : optional [isNumber, value]],                  *)
(*    notifications : optional array value of                              *)
(*      [notificationType : optional [isString, value], parameter, id]].   *)
(***************************************************************************)
\* Joi.object({notificationType: Joi.string().required()}).unknown(true)
ValidNotification(notification) ==
  /\ notification.notificationType # <<>>
  /\ notification.notificationType[1].isString

\* Joi.object({event: Joi.object({id: Joi.number().required()})
\*   .unknown(true).required(), notifications: Joi.array().items(...)
\*   .optional()}).unknown(true)
ValidSchemeEvent(item) ==
  /\ item.event # <<>>
  /\ item.event[1].id # <<>>
  /\ item.event[1].id[1].isNumber
  /\ \/ item.notifications = <<>>
     \/ /\ item.notifications[1].isArray
        /\ \A n \in Range(item.notifications[1].items) : ValidNotification(n)

\* NOTIFICATION_SCHEME = Joi.object({notificationSchemeEvents:
\*   Joi.array().items(...).optional()}).unknown(true).required()
NOTIFICATION_SCHEME(value) ==
  /\ value.isObject
  /\ \/ value.notificationSchemeEvents = <<>>
     \/ /\ value.notificationSchemeEvents[1].isArray
        /\ \A item \in Range(value.notificationSchemeEvents[1].items) :
              ValidSchemeEvent(item)

\* error === undefined
isNotificationScheme(value) == NOTIFICATION_SCHEME(value)

\* the value undefined (values[0] of an empty page)
UndefinedPayload == [isObject |-> FALSE, notificationSchemeEvents |-> <<>>]

\* isPageResponse(response.data): the response holds a values array
isPageResponse(data) == data.page

\* response.data.values[0]
FirstValue(data) == IF data.values = <<>> THEN UndefinedPayload ELSE data.values[1]

\* Lines 262-269 of deployEvents: what the read-back does to the add of
\* eventInstance.  "skip": validation failed, nothing is written;
\* "throw": a TypeError (filter of undefined, property of undefined,
\* notificationEvent[0] undefined); "set": notificationIds[name] = id.
ReadBack(data, value) ==
  IF ~(isPageResponse(data) /\ isNotificationScheme(FirstValue(data)))
  THEN [kind |-> "skip", id |-> <<>>]
  ELSE LET scheme == FirstValue(data)
       IN  IF scheme.notificationSchemeEvents = <<>>
           THEN [kind |-> "throw", id |-> <<>>]
           ELSE LET events == SelectSeq(scheme.notificationSchemeEvents[1].items,
                                LAMBDA e : e.event[1].id[1].value = value.eventTypeIds)
                IN  IF \E e \in Range(events) : e.notifications = <<>>
                    THEN [kind |-> "throw", id |-> <<>>]
                    ELSE LET all == Flatten(Map(events,
                                      LAMBDA e : e.notifications[1].items))
                             notificationEvent == SelectSeq(all,
                                      LAMBDA n : n.notificationType[1].value = value.type)
                         IN  IF notificationEvent = <<>>
                             THEN [kind |-> "throw", id |-> <<>>]
                             ELSE [kind |-> "set", id |-> notificationEvent[1].id]

(***************************************************************************)
(* State.                                                                  *)
(***************************************************************************)
VARIABLES
  isDataCenter,   \* client.isDataCenter
  changes,        \* the batch handed to the filter: [typeName, action] each
  before,         \* change.data.before of the scheme modification
  instance,       \* getChangeData(change) of the scheme change
  initial,        \* before and instance as they were handed in
  pc,             \* position of the filter pipeline
  fieldResult,    \* deployResult of the first deployChanges
  eventChanges,   \* result of getEventChanges in deployEvents
  tasks,          \* the async callbacks of Promise.all, one per event change
  settled,        \* state of the promise returned by deployEvents
  calls,          \* bag of the remote calls issued so far
  result,         \* what deploy returned
  payload,        \* value handed to isNotificationScheme
  verdict         \* what isNotificationScheme returned for payload

vars == <<isDataCenter, changes, before, instance, initial, pc, fieldResult,
          eventChanges, tasks, settled, calls, result, payload, verdict>>

pipelineVars == <<isDataCenter, changes, before, instance, initial, pc,
                  fieldResult, eventChanges, tasks, settled, calls, result>>

NOTIFICATION_SCHEME_TYPE_NAME == "NotificationScheme"

UndefinedIds == [defined |-> FALSE, map |-> {}]

InstanceValue(id, events, ids) ==
  [id |-> id, schemeId |-> <<>>, notificationSchemeEvents |-> events,
   notificationIds |-> ids]

NoInstance == InstanceValue(<<>>, <<>>, UndefinedIds)

\* a declarative scheme event before preDeploy: no wire fields
SchemeEvent(eventType, notifications) ==
  [eventType |-> eventType, event |-> <<>>, notifications |-> notifications]

Notification(k) ==
  [type |-> k.type, parameter |-> k.parameter, notificationType |-> <<>>]

\* entries f[1..k] = <<eventType, kind>> grouped into scheme events: entry i
\* joins the scheme event of entry i-1 when merge[i]
RECURSIVE Group(_, _)
Group(f, merge) ==
  IF f = <<>> THEN <<>>
  ELSE LET k == Len(f)
           prev == Group(SubSeq(f, 1, k - 1), merge)
           n == Notification(f[k][2])
       IN  IF k >= 2 /\ merge[k]
           THEN [prev EXCEPT ![Len(prev)].notifications = Append(@, n)]
           ELSE Append(prev, SchemeEvent(f[k][1], <<n>>))

\* every notificationSchemeEvents list that holds exactly k notifications
EventSeqsOf(k, kinds) ==
  UNION { { Group(f, m) :
            m \in { mm \in [2..k -> BOOLEAN] :
                    \A i \in 2..k : mm[i] => f[i][1] = f[i - 1][1] } } :
          f \in [1..k -> EventTypeIds \X kinds] }

\* every notificationSchemeEvents list with at most MaxEntries notifications
EventSeqs == UNION { EventSeqsOf(k, NotificationKinds) : k \in 0..MaxEntries }

Count(events) == Len(getEventsValues([notificationSchemeEvents |-> events]))

\* notification ids held for the bindings of a snapshot: the i-th distinct
\* key holds id i
HeldIds(events) ==
  LET keys == Uniq(Map(getEventsValues([notificationSchemeEvents |-> events]),
                       getEventKey))
  IN  { <<keys[i], ToString(i)>> : i \in 1..Len(keys) }

\* notificationIds is absent, empty, or holds the ids of the snapshot's bindings
IdMaps(events) ==
  { UndefinedIds,
    [defined |-> TRUE, map |-> {}],
    [defined |-> TRUE, map |-> HeldIds(events)] }

SchemeChanges ==
  [typeName : {NOTIFICATION_SCHEME_TYPE_NAME}, action : {"add", "remove", "modify"}]

OtherChange == [typeName |-> "Other", action |-> "modify"]

\* batches of at most MaxChanges changes, at most one of them a scheme change
Batches ==
  { b \in UNION { [1..k -> SchemeChanges \cup {OtherChange}] : k \in 1..MaxChanges } :
      Cardinality({ i \in DOMAIN b :
                      b[i].typeName = NOTIFICATION_SCHEME_TYPE_NAME }) <= 1 }

isSchemeChange(change) == change.typeName = NOTIFICATION_SCHEME_TYPE_NAME

\* index of the scheme change of the batch, 0 when there is none
SchemeIndex(b) ==
  IF \E i \in DOMAIN b : isSchemeChange(b[i])
  THEN CHOOSE i \in DOMAIN b : isSchemeChange(b[i])
  ELSE 0

SchemeAction(b) == IF SchemeIndex(b) = 0 THEN "none" ELSE b[SchemeIndex(b)].action

\* the event type ids are interchangeable: the first scheme event of the
\* change is taken to be about the least of them
FirstEventType(events) ==
  IF events = <<>> THEN {} ELSE {events[1].eventType}

LeastFirst(eb, ea) ==
  \A t \in FirstEventType(eb \o ea) : \A u \in EventTypeIds : t <= u

\* the input of a run is within the size bound (a snapshot paired with
\* itself is counted once)
WithinSize(eb, ea, b) ==
  (IF eb = ea THEN Count(eb) ELSE Count(eb) + Count(ea)) + 2 * (Len(b) - 1)
    <= MaxTotal

\* before and instance of a scheme modification: the snapshots hold at most
\* MaxEntries notifications each, and the hidden notificationIds is carried
\* from before to after
InitModification ==
  \E eb \in EventSeqs : \E ea \in EventSeqs :
    \E ids \in IdMaps(eb) : \E id \in SchemeIds :
      /\ WithinSize(eb, ea, changes)
      /\ LeastFirst(eb, ea)
      /\ before = InstanceValue(<<id>>, eb, ids)
      /\ instance = InstanceValue(<<id>>, ea, ids)

\* a scheme to create has no id and no notificationIds yet
InitAddition ==
  \E ea \in EventSeqs :
    /\ WithinSize(<<>>, ea, changes)
    /\ before = NoInstance
    /\ instance = InstanceValue(<<>>, ea, UndefinedIds)

InitRemoval ==
  \E eb \in EventSeqs : \E ids \in IdMaps(eb) : \E id \in SchemeIds :
    /\ WithinSize(eb, <<>>, changes)
    /\ before = NoInstance
    /\ instance = InstanceValue(<<id>>, eb, ids)

NoResult == [returned |-> FALSE, leftoverChanges |-> <<>>,
             appliedChanges |-> <<>>, errors |-> <<>>]

NoFieldResult == [appliedChanges |-> <<>>, errors |-> <<>>]

Init ==
  /\ isDataCenter \in BOOLEAN
  /\ changes \in Batches
  /\ CASE SchemeAction(changes) = "modify" -> InitModification
       [] SchemeAction(changes) = "add" -> InitAddition
       [] SchemeAction(changes) = "remove" -> InitRemoval
       [] OTHER -> before = NoInstance /\ instance = NoInstance
  /\ initial = [before |-> before, instance |-> instance]
  /\ pc = "preDeploy"
  /\ fieldResult = NoFieldResult
  /\ eventChanges = <<>>
  /\ tasks = <<>>
  /\ settled = "none"
  /\ calls = EmptyBag
  /\ result = NoResult
  /\ payload = UndefinedPayload
  /\ verdict = "none"

(***************************************************************************)
(* notification_scheme_deployment.ts: preDeploy and onDeploy               *)
(***************************************************************************)
\* NOTIFICATION_SCHEME_EVENT = Joi.object({eventType: Joi.any()}).unknown(true):
\* every object passes
isNotificationSchemeEvent(value) == TRUE

isRemovalOrModificationChange(change) == change.action \in {"remove", "modify"}

isModificationChange(change) == change.action = "modify"

\* the forEach body of preDeploy on one instance value (eventType and type
\* are defined on every declarative event and notification)
preDeployValue(value, change) ==
  LET OfEvent(event) ==
        IF isNotificationSchemeEvent(event)
        THEN [event EXCEPT
                !.event = <<event.eventType>>,
                !.notifications = Map(@, LAMBDA n :
                                     [n EXCEPT !.notificationType = <<n.type>>])]
        ELSE event
      withEvents == [value EXCEPT !.notificationSchemeEvents = Map(@, OfEvent)]
  IN  IF isRemovalOrModificationChange(change)
      THEN [withEvents EXCEPT !.schemeId = value.id]
      ELSE withEvents

\* Number(x) on an optional decimal string
Number(opt) == IF opt = <<>> THEN <<"NaN">> ELSE opt

\* onDeploy without the delete of notification.notificationType
onDeployValue_KeepsNotificationType(value, change) ==
  LET OfEvent(event) ==
        IF isNotificationSchemeEvent(event)
        THEN [event EXCEPT !.event = <<>>]
        ELSE event
      withEvents == [value EXCEPT !.id = Number(@),
                                  !.notificationSchemeEvents = Map(@, OfEvent)]
  IN  IF isRemovalOrModificationChange(change)
      THEN [withEvents EXCEPT !.schemeId = <<>>]
      ELSE withEvents

\* the forEach body of onDeploy on one instance value
onDeployValue(value, change) ==
  LET OfEvent(event) ==
        IF isNotificationSchemeEvent(event)
        THEN [event EXCEPT
                !.event = <<>>,
                !.notifications = Map(@, LAMBDA n :
                                     [n EXCEPT !.notificationType = <<>>])]
        ELSE event
      withEvents == [value EXCEPT !.id = Number(@),
                                  !.notificationSchemeEvents = Map(@, OfEvent)]
  IN  IF isRemovalOrModificationChange(change)
      THEN [withEvents EXCEPT !.schemeId = <<>>]
      ELSE withEvents

\* preDeploy without the isDataCenter return
PreDeploy_IgnoresDataCenter ==
  /\ pc = "preDeploy"
  /\ pc' = "deploy"
  /\ instance' = IF SchemeIndex(changes) # 0
                 THEN preDeployValue(instance, changes[SchemeIndex(changes)])
                 ELSE instance
  /\ UNCHANGED <<isDataCenter, changes, before, initial, fieldResult,
                 eventChanges, tasks, settled, calls, result, payload, verdict>>

\* preDeploy
PreDeploy ==
  /\ pc = "preDeploy"
  /\ pc' = "deploy"
  /\ instance' = IF ~isDataCenter /\ SchemeIndex(changes) # 0
                 THEN preDeployValue(instance, changes[SchemeIndex(changes)])
                 ELSE instance
  /\ UNCHANGED <<isDataCenter, changes, before, initial, fieldResult,
                 eventChanges, tasks, settled, calls, result, payload, verdict>>

\* onDeploy
OnDeploy ==
  /\ pc = "returned"
  /\ pc' = "done"
  /\ instance' = IF ~isDataCenter /\ SchemeIndex(changes) # 0
                 THEN onDeployValue(instance, changes[SchemeIndex(changes)])
                 ELSE instance
  /\ UNCHANGED <<isDataCenter, changes, before, initial, fieldResult,
                 eventChanges, tasks, settled, calls, result, payload, verdict>>

(***************************************************************************)
(* notification_scheme_deployment.ts: deploy                               *)
(***************************************************************************)
Indices(b, Test(_)) == SelectSeq([i \in 1..Len(b) |-> i], LAMBDA i : Test(b[i]))

\* if (client.isDataCenter) return {leftoverChanges: changes, ...}
DeployDataCenter ==
  /\ pc = "deploy"
  /\ isDataCenter
  /\ pc' = "returned"
  /\ result' = [returned |-> TRUE,
                leftoverChanges |-> [i \in 1..Len(changes) |-> i],
                appliedChanges |-> <<>>,
                errors |-> <<>>]
  /\ UNCHANGED <<isDataCenter, changes, before, instance, initial, fieldResult,
                 eventChanges, tasks, settled, calls, payload, verdict>>

\* a remote call record; name is the event instance the call is made for
Call(method, name, schemeId, notificationId, body) ==
  [method |-> method, name |-> name, schemeId |-> schemeId,
   notificationId |-> notificationId, body |-> body]

\* deployChanges(changes, deployChangeFunc), the generic batch orchestrator:
\* a change whose callback resolved is applied, a change whose callback
\* rejected yields one error
deployChanges(items, ok) ==
  IF ok THEN [appliedChanges |-> items, errors |-> <<>>]
  ELSE [appliedChanges |-> <<>>, errors |-> items]

\* deployChanges(relevantChanges, change => defaultDeployChange(...)): each
\* relevant change is deployed by one remote call that succeeds or fails; a
\* successful addition stores the id the service assigned
DeployFields ==
  /\ pc = "deploy"
  /\ ~isDataCenter
  /\ pc' = "fields"
  /\ LET relevantChanges == Indices(changes, isSchemeChange)
     IN  \E ok \in BOOLEAN :
           /\ fieldResult' = deployChanges(relevantChanges, ok)
           /\ calls' = calls (+) SetToBag(
                { Call("FIELDS", "", instance.id, <<>>, <<>>) :
                  i \in Range(relevantChanges) })
           /\ instance' =
                IF ok /\ SchemeAction(changes) = "add"
                THEN [instance EXCEPT !.id = <<CHOOSE id \in SchemeIds : TRUE>>]
                ELSE instance
  /\ UNCHANGED <<isDataCenter, changes, before, initial, eventChanges, tasks,
                 settled, result, payload, verdict>>

\* leftoverChanges of _.partition
LeftoverChanges == Indices(changes, LAMBDA change : ~isSchemeChange(change))

\* the applied changes handed to deployEvents without the
\* isModificationChange filter
AppliedModifications_Unfiltered == fieldResult.appliedChanges

\* deployResult.appliedChanges.filter(isModificationChange).filter(isInstanceChange)
AppliedModifications ==
  SelectSeq(fieldResult.appliedChanges, LAMBDA i : isModificationChange(changes[i]))

\* the return statement of deploy, given eventsDeployResult
DeployResult(eventsDeployResult) ==
  [returned |-> TRUE,
   leftoverChanges |-> LeftoverChanges,
   appliedChanges |-> fieldResult.appliedChanges \o eventsDeployResult.appliedChanges,
   errors |-> fieldResult.errors \o eventsDeployResult.errors]

\* the second deployChanges has nothing to run
DeployWithoutEvents ==
  /\ pc = "fields"
  /\ AppliedModifications = <<>>
  /\ pc' = "returned"
  /\ result' = DeployResult(NoFieldResult)
  /\ UNCHANGED <<isDataCenter, changes, before, instance, initial, fieldResult,
                 eventChanges, tasks, settled, calls, payload, verdict>>

(***************************************************************************)
(* notification_events.ts: deployEvents                                    *)
(***************************************************************************)
\* a callback: where it stands, how it ended, the notificationId a removal
\* read, and whether the read-back of an addition returned the scheme as
\* the service holds it ("scheme") or something else ("other")
Task(taskPc, outcome, notificationId, readBack) ==
  [pc |-> taskPc, outcome |-> outcome, notificationId |-> notificationId,
   readBack |-> readBack]

\* Promise.all: rejected by the first callback that rejects, resolved once
\* every callback has resolved
Settle(current, ts) ==
  IF current # "pending" THEN current
  ELSE IF \E i \in 1..Len(ts) : ts[i].pc = "failed" THEN "rejected"
  ELSE IF \A i \in 1..Len(ts) : ts[i].pc = "done" THEN "resolved"
  ELSE "pending"

\* the data of the PUT call (lines 236-246)
PutData(value) ==
  [notificationSchemeEvents |->
     << [event |-> [id |-> value.eventTypeIds],
         notifications |-> Map(value.notifications, LAMBDA notification :
            [notificationType |->
               IF notification.notificationType = <<>> THEN <<>>
               ELSE <<EVENT_TYPES(notification.notificationType[1])>>,
             parameter |-> notification.parameter])] >>]

\* Synchronous part of every callback, run in order by eventChanges.map up
\* to its first await: a removal reads notificationIds[name] (a TypeError
\* when notificationIds is undefined) and issues DELETE; an addition
\* creates notificationIds when it is undefined and issues PUT.
StartTask(ids, i, eventChange) ==
  IF eventChange.action = "remove"
  THEN IF ~ids.defined
       THEN Task("failed", "TypeError", <<>>, "none")
       ELSE Task("delete", "", Lookup(ids, eventChange.data.value.name), "none")
  ELSE Task("put", "", <<>>, "none")

StartCalls(ec, ts) ==
  { Call("DELETE", ec[i].data.value.name, ec[i].data.value.schemeId,
         ts[i].notificationId, <<>>) :
      i \in { j \in 1..Len(ec) : ts[j].pc = "delete" } }
  \cup
  { Call("PUT", ec[i].data.value.name, ec[i].data.value.schemeId, <<>>,
         <<PutData(ec[i].data.value)>>) :
      i \in { j \in 1..Len(ec) : ts[j].pc = "put" } }

DeployEventsStart ==
  /\ pc = "fields"
  /\ AppliedModifications # <<>>
  /\ pc' = "events"
  /\ LET ec == getEventChanges([action |-> "modify", before |-> before,
                                 after |-> instance])
         ids == instance.notificationIds
         ts == [i \in 1..Len(ec) |-> StartTask(ids, i, ec[i])]
     IN  /\ eventChanges' = ec
         /\ tasks' = ts
         /\ calls' = calls (+) SetToBag(StartCalls(ec, ts))
         /\ instance' =
              IF ~ids.defined /\ \E i \in 1..Len(ec) : ec[i].action = "add"
              THEN [instance EXCEPT !.notificationIds = [defined |-> TRUE, map |-> {}]]
              ELSE instance
         /\ settled' = Settle("pending", ts)
  /\ UNCHANGED <<isDataCenter, changes, before, initial, fieldResult, result,
                 payload, verdict>>

\* delete obj[key]
DeleteKey(ids, key) == [ids EXCEPT !.map = { p \in @ : p[1] # key }]

\* obj = {[key]: id}: the whole object replaced instead of one key set
SetKey_ReplacesObject(ids, key, id) == [ids EXCEPT !.map = { <<key, id>> }]

\* the assignment obj[key] = id left out
SetKey_Dropped(ids, key, id) == ids

\* obj[key] = id
SetKey(ids, key, id) ==
  [ids EXCEPT !.map = { p \in @ : p[1] # key } \cup { <<key, id>> }]

\* DeleteResolve with the key deleted whether or not the call succeeded
DeleteResolve_DeletesAnyway ==
  \E i \in 1..Len(tasks) : \E ok \in BOOLEAN :
    /\ tasks[i].pc = "delete"
    /\ tasks' = [tasks EXCEPT ![i] =
                   IF ok THEN Task("done", "deleted", @.notificationId, "none")
                   ELSE Task("failed", "deleteFailed", @.notificationId, "none")]
    /\ instance' = [instance EXCEPT !.notificationIds =
                      DeleteKey(@, eventChanges[i].data.value.name)]
    /\ settled' = Settle(settled, tasks')
    /\ UNCHANGED <<isDataCenter, changes, before, initial, pc, fieldResult,
                   eventChanges, calls, result, payload, verdict>>

\* client.delete settles: on success delete notificationIds[name]
DeleteResolve ==
  \E i \in 1..Len(tasks) : \E ok \in BOOLEAN :
    /\ tasks[i].pc = "delete"
    /\ tasks' = [tasks EXCEPT ![i] =
                   IF ok THEN Task("done", "deleted", @.notificationId, "none")
                   ELSE Task("failed", "deleteFailed", @.notificationId, "none")]
    /\ instance' =
         IF ok THEN [instance EXCEPT !.notificationIds =
                        DeleteKey(@, eventChanges[i].data.value.name)]
         ELSE instance
    /\ settled' = Settle(settled, tasks')
    /\ UNCHANGED <<isDataCenter, changes, before, initial, pc, fieldResult,
                   eventChanges, calls, result, payload, verdict>>

\* client.put wrapped in a retry: a failed PUT is issued again (once) instead
\* of failing the callback
PutResolve_RetriesOnFailure ==
  \E i \in 1..Len(tasks) : \E ok \in BOOLEAN :
    LET name == eventChanges[i].data.value.name
        put == CHOOSE c \in BagToSet(calls) : c.method = "PUT" /\ c.name = name
        retry == ~ok /\ calls[put] = 1
    IN  /\ tasks[i].pc = "put"
        /\ tasks' = [tasks EXCEPT ![i] =
                       IF ok THEN Task("get", "", <<>>, "none")
                       ELSE IF retry THEN @
                       ELSE Task("failed", "putFailed", <<>>, "none")]
        /\ calls' = IF ok
                    THEN calls (+) SetToBag(
                           { Call("GET", name,
                                  eventChanges[i].data.value.schemeId, <<>>, <<>>) })
                    ELSE IF retry THEN calls (+) SetToBag({put})
                    ELSE calls
        /\ settled' = Settle(settled, tasks')
        /\ UNCHANGED <<isDataCenter, changes, before, instance, initial, pc,
                       fieldResult, eventChanges, result, payload, verdict>>

\* client.put settles: on success issue the read-back GET
PutResolve ==
  \E i \in 1..Len(tasks) : \E ok \in BOOLEAN :
    /\ tasks[i].pc = "put"
    /\ tasks' = [tasks EXCEPT ![i] =
                   IF ok THEN Task("get", "", <<>>, "none")
                   ELSE Task("failed", "putFailed", <<>>, "none")]
    /\ calls' = IF ok
                THEN calls (+) SetToBag(
                       { Call("GET", eventChanges[i].data.value.name,
                              eventChanges[i].data.value.schemeId, <<>>, <<>>) })
                ELSE calls
    /\ settled' = Settle(settled, tasks')
    /\ UNCHANGED <<isDataCenter, changes, before, instance, initial, pc,
                   fieldResult, eventChanges, result, payload, verdict>>

\* id the service gives the notification at position pos of the scheme
RemoteId(pos) == ToString(MaxEntries + pos)

RECURSIVE Offset(_, _)
Offset(events, i) ==
  IF i <= 1 THEN 0 ELSE Offset(events, i - 1) + Len(events[i - 1].notifications)

\* the scheme as the service returns it once every binding of the
\* declarative snapshot exists remotely
RemoteScheme(value) ==
  LET events == value.notificationSchemeEvents
      OfEvent(i) ==
        [event |-> << [id |-> << [isNumber |-> TRUE,
                                  value |-> events[i].eventType] >>] >>,
         notifications |-> << [isArray |-> TRUE, items |->
            [j \in 1..Len(events[i].notifications) |->
               [notificationType |->
                  << [isString |-> TRUE,
                      value |-> EVENT_TYPES(events[i].notifications[j].type)] >>,
                parameter |-> events[i].notifications[j].parameter,
                id |-> RemoteId(Offset(events, i) + j)]]] >>]
  IN  [isObject |-> TRUE,
       notificationSchemeEvents |->
         << [isArray |-> TRUE, items |-> [i \in 1..Len(events) |-> OfEvent(i)]] >>]

\* a scheme event without event.id
BrokenSchemeEvent == [event |-> << [id |-> <<>>] >>, notifications |-> <<>>]

\* the response data the read-back GET may resolve with
ReadBacks(value) ==
  { [page |-> FALSE, values |-> <<>>],
    [page |-> TRUE, values |-> <<>>] }
  \cup
  { [page |-> TRUE, values |-> <<scheme>>] :
    scheme \in
      { [isObject |-> TRUE, notificationSchemeEvents |-> <<>>],
        [isObject |-> TRUE, notificationSchemeEvents |->
           << [isArray |-> TRUE, items |-> <<BrokenSchemeEvent>>] >>],
        [isObject |-> TRUE, notificationSchemeEvents |->
           << [isArray |-> TRUE, items |-> <<>>] >>],
        RemoteScheme(value) } }

\* client.getSinglePage rejects
GetReject ==
  \E i \in 1..Len(tasks) :
    /\ tasks[i].pc = "get"
    /\ tasks' = [tasks EXCEPT ![i] = Task("failed", "getFailed", <<>>, "none")]
    /\ settled' = Settle(settled, tasks')
    /\ UNCHANGED <<isDataCenter, changes, before, instance, initial, pc,
                   fieldResult, eventChanges, calls, result, payload, verdict>>

\* GetResolve with the write left out once the run has been rejected
GetResolve_NoWriteAfterRejection ==
  \E i \in 1..Len(tasks) : \E data \in ReadBacks(instance) :
    LET read == ReadBack(data, eventChanges[i].data.value)
        kind == IF data = [page |-> TRUE, values |-> <<RemoteScheme(instance)>>]
                THEN "scheme" ELSE "other"
    IN  /\ tasks[i].pc = "get"
        /\ tasks' = [tasks EXCEPT ![i] =
                       CASE read.kind = "skip" -> Task("done", "skipped", <<>>, kind)
                         [] read.kind = "throw" -> Task("failed", "TypeError", <<>>, kind)
                         [] OTHER -> Task("done", "recorded", <<>>, kind)]
        /\ instance' =
             IF read.kind = "set" /\ settled # "rejected"
             THEN [instance EXCEPT !.notificationIds =
                     SetKey(@, eventChanges[i].data.value.name, read.id)]
             ELSE instance
        /\ settled' = Settle(settled, tasks')
        /\ UNCHANGED <<isDataCenter, changes, before, initial, pc, fieldResult,
                       eventChanges, calls, result, payload, verdict>>

\* client.getSinglePage resolves: lines 262-269
GetResolve ==
  \E i \in 1..Len(tasks) : \E data \in ReadBacks(instance) :
    LET read == ReadBack(data, eventChanges[i].data.value)
        kind == IF data = [page |-> TRUE, values |-> <<RemoteScheme(instance)>>]
                THEN "scheme" ELSE "other"
    IN  /\ tasks[i].pc = "get"
        /\ tasks' = [tasks EXCEPT ![i] =
                       CASE read.kind = "skip" -> Task("done", "skipped", <<>>, kind)
                         [] read.kind = "throw" -> Task("failed", "TypeError", <<>>, kind)
                         [] OTHER -> Task("done", "recorded", <<>>, kind)]
        /\ instance' =
             IF read.kind = "set"
             THEN [instance EXCEPT !.notificationIds =
                     SetKey(@, eventChanges[i].data.value.name, read.id)]
             ELSE instance
        /\ settled' = Settle(settled, tasks')
        /\ UNCHANGED <<isDataCenter, changes, before, initial, pc, fieldResult,
                       eventChanges, calls, result, payload, verdict>>

\* deployChanges(modifications, change => deployEvents(change, client)):
\* the change is applied when deployEvents resolves, an error when it rejects
DeployReturn ==
  /\ pc = "events"
  /\ settled \in {"resolved", "rejected"}
  /\ pc' = "returned"
  /\ result' = DeployResult(deployChanges(AppliedModifications,
                                          settled = "resolved"))
  /\ UNCHANGED <<isDataCenter, changes, before, instance, initial, fieldResult,
                 eventChanges, tasks, settled, calls, payload, verdict>>

Next ==
  \/ PreDeploy
  \/ DeployDataCenter
  \/ DeployFields
  \/ DeployWithoutEvents
  \/ DeployEventsStart
  \/ DeleteResolve
  \/ PutResolve
  \/ GetReject
  \/ GetResolve
  \/ DeployReturn
  \/ OnDeploy

Spec == Init /\ [][Next]_vars

(***************************************************************************)
(* The event diff alone, over snapshots that also hold bindings whose      *)
(* identity keys collide (parameter absent and parameter "undefined").     *)
(***************************************************************************)
DiffKinds ==
  NotificationKinds \cup { [type |-> "EmailAddress", parameter |-> <<"undefined">>] }

DiffSeqs == UNION { EventSeqsOf(k, DiffKinds) : k \in 0..MaxEntries }

ModifyChange == [typeName |-> NOTIFICATION_SCHEME_TYPE_NAME, action |-> "modify"]

InitDiff ==
  /\ isDataCenter = FALSE
  /\ changes = <<ModifyChange>>
  /\ \E eb \in DiffSeqs : \E ea \in DiffSeqs : \E id \in SchemeIds :
       LET ids == [defined |-> TRUE, map |-> HeldIds(eb)]
       IN  /\ WithinSize(eb, ea, changes)
           /\ LeastFirst(eb, ea)
           /\ before = InstanceValue(<<id>>, eb, ids)
           /\ instance = preDeployValue(InstanceValue(<<id>>, ea, ids), ModifyChange)
  /\ initial = [before |-> before, instance |-> instance]
  /\ pc = "diff"
  /\ fieldResult = NoFieldResult
  /\ eventChanges = <<>>
  /\ tasks = <<>>
  /\ settled = "none"
  /\ calls = EmptyBag
  /\ result = NoResult
  /\ payload = UndefinedPayload
  /\ verdict = "none"

\* const eventChanges = await getEventChanges(...), for a scheme that is
\* modified or (before absent) created
Diff ==
  /\ pc = "diff"
  /\ \E action \in {"modify", "add"} :
       /\ pc' = IF action = "modify" THEN "diffed" ELSE "diffedNew"
       /\ eventChanges' = getEventChanges([action |-> action, before |-> before,
                                           after |-> instance])
  /\ UNCHANGED <<isDataCenter, changes, before, instance, initial, fieldResult,
                 tasks, settled, calls, result, payload, verdict>>

SpecDiff == InitDiff /\ [][Diff]_vars

(***************************************************************************)
(* The shape validator alone, over decoded payloads.                       *)
(***************************************************************************)
PayloadNotifications ==
  [notificationType : { <<>>,
                        << [isString |-> FALSE, value |-> ""] >>,
                        << [isString |-> TRUE, value |-> "EmailAddress"] >> },
   parameter : { <<>> },
   id : { "1" }]

ArraysOf(items, n) ==
  { [isArray |-> TRUE, items |-> s] : s \in UNION { [1..k -> items] : k \in 0..n } }

NotArray == [isArray |-> FALSE, items |-> <<>>]

PayloadEvents ==
  [event : { <<>>,
             << [id |-> <<>>] >>,
             << [id |-> << [isNumber |-> FALSE, value |-> 0] >>] >>,
             << [id |-> << [isNumber |-> TRUE, value |-> 10] >>] >> },
   notifications : { <<>>, <<NotArray>> }
                   \cup { <<a>> : a \in ArraysOf(PayloadNotifications, 1) }]

Payloads ==
  { UndefinedPayload,
    [isObject |-> TRUE, notificationSchemeEvents |-> <<>>],
    [isObject |-> TRUE, notificationSchemeEvents |-> <<NotArray>>] }
  \cup
  { [isObject |-> TRUE, notificationSchemeEvents |-> <<a>>] :
    a \in ArraysOf(PayloadEvents, MaxEntries) }

InitValidate ==
  /\ isDataCenter = FALSE
  /\ changes = <<ModifyChange>>
  /\ before = NoInstance
  /\ instance = NoInstance
  /\ initial = [before |-> before, instance |-> instance]
  /\ pc = "validate"
  /\ fieldResult = NoFieldResult
  /\ eventChanges = <<>>
  /\ tasks = <<>>
  /\ settled = "none"
  /\ calls = EmptyBag
  /\ result = NoResult
  /\ payload \in Payloads
  /\ verdict = "none"

\* isNotificationScheme(payload)
Validate ==
  /\ pc = "validate"
  /\ pc' = "validated"
  /\ verdict' = IF isNotificationScheme(payload) THEN "true" ELSE "false"
  /\ UNCHANGED <<isDataCenter, changes, before, instance, initial, fieldResult,
                 eventChanges, tasks, settled, calls, result, payload>>

SpecValidate == InitValidate /\ [][Validate]_vars

(***************************************************************************)
(* Properties.                                                             *)
(***************************************************************************)
ToAdd == SelectSeq(eventChanges, LAMBDA c : c.action = "add")
ToRemove == SelectSeq(eventChanges, LAMBDA c : c.action = "remove")
Names(cs) == { cs[i].data.value.name : i \in 1..Len(cs) }

\* identity keys of the canonical projection of a snapshot
Keys(value) == { getEventKey(e) : e \in Range(getEventsValues(value)) }

\* the entry an event instance was made from
EntryOf(value) ==
  [eventType |-> value.eventTypeIds, type |-> value.type,
   parameter |-> value.typeField]

\* cs[i] was made from the last entry of the snapshot that has its key
FromLastEntry(c, value) ==
  LET es == getEventsValues(value)
  IN  \E j \in 1..Len(es) :
        /\ getEventKey(es[j]) = c.data.value.name
        /\ EntryOf(c.data.value) =
             [eventType |-> es[j].eventType, type |-> EVENT_TYPES(es[j].type),
              parameter |-> es[j].parameter]
        /\ \A l \in (j + 1)..Len(es) : getEventKey(es[l]) # c.data.value.name

\* C1: getEventChanges partitions the snapshots by identity key.  The keys
\* of the additions are exactly the after keys that do not occur in before
\* and the keys of the removals exactly the before keys that do not occur
\* in after (before counts as empty for a created scheme), so every after
\* key is either unchanged or added, every before key either unchanged or
\* removed, and no key is both added and removed; each key is listed once,
\* by the last entry of its snapshot that has the key.
C1_DiffPartitionsByKey ==
  pc \in {"diffed", "diffedNew"} =>
    LET beforeKeys == IF pc = "diffed" THEN Keys(before) ELSE {}
        afterKeys == Keys(instance)
    IN  /\ Names(ToAdd) = afterKeys \ beforeKeys
        /\ Names(ToRemove) = beforeKeys \ afterKeys
        /\ Names(ToAdd) \cap Names(ToRemove) = {}
        /\ \A i, j \in 1..Len(eventChanges) :
             i # j => eventChanges[i].data.value.name # eventChanges[j].data.value.name
        /\ \A i \in 1..Len(ToAdd) : FromLastEntry(ToAdd[i], instance)
        /\ \A i \in 1..Len(ToRemove) : FromLastEntry(ToRemove[i], before)

\* a diff with an addition, a removal and two after entries sharing a key
C1_Witness ==
  /\ pc = "diffed"
  /\ ToAdd # <<>>
  /\ ToRemove # <<>>
  /\ Len(getEventsValues(instance)) > Cardinality(Keys(instance))

\* deployEvents has started its callbacks
Started == settled # "none"

IsAdd(i) == eventChanges[i].action = "add"
NameOf(i) == eventChanges[i].data.value.name
AllTerminal == \A i \in 1..Len(tasks) : tasks[i].pc \in {"done", "failed"}

\* number of calls of a method issued for an event instance name
CountCalls(method, name) ==
  LET S == { c \in BagToSet(calls) : c.method = method /\ c.name = name }
  IN  BagCardinality([c \in S |-> calls[c]])

CurrentId(key) == Lookup(instance.notificationIds, key)
InitialId(key) == Lookup(initial.instance.notificationIds, key)

AddedKeys == Keys(instance) \ Keys(before)
RemovedKeys == Keys(before) \ Keys(instance)
UnchangedKeys == Keys(before) \cap Keys(instance)

\* every remote call of the run resolved, and every read-back returned the
\* scheme as the service holds it
EveryCallSucceeded ==
  \A i \in 1..Len(tasks) :
    /\ tasks[i].outcome \notin {"deleteFailed", "putFailed", "getFailed"}
    /\ IsAdd(i) => tasks[i].readBack = "scheme"

\* C2: once a deployEvents run in which every remote call succeeded has
\* finished, every identity key that is in the after projection and not in
\* the before projection has had exactly one PUT call issued for it and has
\* exactly one id recorded in notificationIds.
C2_AddCreatesOnceAndRecordsId ==
  (Started /\ AllTerminal /\ EveryCallSucceeded) =>
    \A key \in AddedKeys :
      /\ CountCalls("PUT", key) = 1
      /\ Cardinality({ p \in instance.notificationIds.map : p[1] = key }) = 1

\* a finished run without failure that added two entries and removed one
C2_Witness ==
  /\ Started /\ AllTerminal /\ EveryCallSucceeded
  /\ Cardinality(AddedKeys) = 2
  /\ RemovedKeys # {}
  /\ \A i \in 1..Len(tasks) : IsAdd(i) => tasks[i].outcome = "recorded"

\* C3: once deployEvents has started, every identity key that is in the
\* before projection and not in the after projection has had exactly one
\* DELETE call issued for it, addressed by the scheme's id and by the id
\* notificationIds held under the key; once the call has succeeded the key
\* is no longer in notificationIds.
C3_RemovalDeletesOnce ==
  Started =>
    \A key \in RemovedKeys :
      /\ CountCalls("DELETE", key) = 1
      /\ \A c \in BagToSet(calls) :
           (c.method = "DELETE" /\ c.name = key) =>
             /\ c.schemeId = initial.instance.id
             /\ c.notificationId = InitialId(key)
      /\ \A i \in 1..Len(tasks) :
           (NameOf(i) = key /\ tasks[i].outcome = "deleted") => CurrentId(key) = <<>>

\* the PUT data lists the notification descriptor of an entry with this key
Carries(data, key) ==
  \E e \in Range(getEventsValues(instance)) :
    /\ getEventKey(e) = key
    /\ \E ev \in Range(data.notificationSchemeEvents) :
         /\ ev.event.id = e.eventType
         /\ \E n \in Range(ev.notifications) :
              /\ n.notificationType = <<EVENT_TYPES(e.type)>>
              /\ n.parameter = e.parameter

C5_NoSilentMissingId ==
  settled = "resolved" => \A key \in AddedKeys : CurrentId(key) # <<>>

\* C6: with two added entries of which the second's PUT fails and the
\* first's calls succeed, the first entry's id is recorded and the result
\* deploy returns for the scheme holds exactly one error.
C6_FailedAddDoesNotBlockOther ==
  \A i, j \in 1..Len(tasks) :
    ( /\ i < j /\ IsAdd(i) /\ IsAdd(j) /\ Len(ToAdd) = 2
      /\ tasks[j].outcome = "putFailed"
      /\ tasks[i].readBack = "scheme" ) =>
        /\ CurrentId(NameOf(i)) # <<>>
        /\ result.returned => Len(result.errors) = 1

\* the second add failed first, the first add was recorded afterwards, and
\* deploy has returned
C6_Witness ==
  /\ Len(ToAdd) = 2 /\ Len(tasks) = 2
  /\ tasks[2].outcome = "putFailed"
  /\ tasks[1].outcome = "recorded"
  /\ result.returned
  /\ pc = "done"

\* C7: a key whose DELETE call failed still has the id it had, and a key
\* whose PUT call failed is still absent from notificationIds.
C7_FailedCallLeavesKeyUntouched ==
  \A i \in 1..Len(tasks) :
    /\ tasks[i].outcome = "deleteFailed" => CurrentId(NameOf(i)) = InitialId(NameOf(i))
    /\ tasks[i].outcome = "putFailed" => CurrentId(NameOf(i)) = <<>>

\* a finished run with a failed DELETE of a key that has an id and a failed PUT
C7_Witness ==
  /\ AllTerminal
  /\ \E i \in 1..Len(tasks) :
       tasks[i].outcome = "deleteFailed" /\ InitialId(NameOf(i)) # <<>>
  /\ \E i \in 1..Len(tasks) : tasks[i].outcome = "putFailed"
  /\ \E i \in 1..Len(tasks) : tasks[i].outcome = "recorded"

\* C8: a change is in appliedChanges only if its field deployment succeeded
\* and, for a modification, its deployEvents call did not fail.
C8_AppliedOnlyIfAllSucceeded ==
  result.returned =>
    \A k \in Range(result.appliedChanges) :
      /\ k \in Range(fieldResult.appliedChanges)
      /\ ~(isModificationChange(changes[k]) /\ settled = "rejected")

\* C9: on a Data Center client no remote call is issued, no event is
\* processed, preDeploy and onDeploy leave the instances as they were, and
\* deploy returns every change as leftover with nothing applied and no
\* error.
C9_DataCenterShortCircuits ==
  isDataCenter =>
    /\ calls = EmptyBag
    /\ eventChanges = <<>> /\ tasks = <<>> /\ settled = "none"
    /\ instance = initial.instance /\ before = initial.before
    /\ result.returned =>
         /\ result.leftoverChanges = [i \in 1..Len(changes) |-> i]
         /\ result.appliedChanges = <<>>
         /\ result.errors = <<>>

\* a Data Center run, through onDeploy, of a batch of two changes, one of
\* them the modification of a scheme that has events
C9_Witness ==
  /\ isDataCenter
  /\ pc = "done"
  /\ result.returned
  /\ Len(changes) = 2
  /\ SchemeAction(changes) = "modify"
  /\ instance.notificationSchemeEvents # <<>>

\* what C10 calls malformed: no notificationSchemeEvents array, a scheme
\* event without a numeric event.id, or a notification without a
\* notificationType string
Malformed(value) ==
  \/ ~value.isObject
  \/ value.notificationSchemeEvents = <<>>
  \/ ~value.notificationSchemeEvents[1].isArray
  \/ \E item \in Range(value.notificationSchemeEvents[1].items) :
       \/ item.event = <<>>
       \/ item.event[1].id = <<>>
       \/ ~item.event[1].id[1].isNumber
       \/ /\ item.notifications # <<>>
          /\ \/ ~item.notifications[1].isArray
             \/ \E n \in Range(item.notifications[1].items) :
                  \/ n.notificationType = <<>>
                  \/ ~n.notificationType[1].isString

\* C10: isNotificationScheme returns false exactly for the malformed payloads.
C10_FalseIffMalformed ==
  pc = "validated" => (verdict = "false" <=> Malformed(payload))

\* the projected entries of both snapshots of the diff
Entries == Range(getEventsValues(before)) \cup Range(getEventsValues(instance))

SameTriple(e1, e2) ==
  /\ e1.eventType = e2.eventType
  /\ e1.type = e2.type
  /\ e1.parameter = e2.parameter

\* C11: getEventKey is injective on (eventType, type, parameter): two
\* entries of the diffed snapshots have the same identity key if and only
\* if the three fields are equal, an absent parameter differing from every
\* present one.
C11_KeyInjective ==
  pc \in {"diffed", "diffedNew"} =>
    \A e1, e2 \in Entries :
      (getEventKey(e1) = getEventKey(e2)) <=> SameTriple(e1, e2)

\* number of calls of a method issued so far
TotalCalls(method) ==
  LET S == { c \in BagToSet(calls) : c.method = method }
  IN  BagCardinality([c \in S |-> calls[c]])

\* the distinct event types of the projection of a snapshot
EventTypesOf(value) == { e.eventType : e \in Range(getEventsValues(value)) }

\* C12: when the before snapshot projects to no entry, deployEvents adds
\* every key of the after projection, removes nothing, and issues exactly
\* one PUT call per distinct event type of the after projection and no
\* DELETE call.
C12_OneCreatePerEventType ==
  (Started /\ getEventsValues(before) = <<>>) =>
    /\ Names(ToAdd) = Keys(instance)
    /\ ToRemove = <<>>
    /\ TotalCalls("PUT") = Cardinality(EventTypesOf(instance))
    /\ TotalCalls("DELETE") = 0

\* ids of the notifications of the read-back scheme that lie in an event
\* whose id is the event type of event change i and whose notificationType
\* is its channel type
MatchingIds(i) ==
  LET value == eventChanges[i].data.value
      items == RemoteScheme(instance).notificationSchemeEvents[1].items
  IN  { n.id : n \in UNION {
          { m \in Range(e.notifications[1].items) :
              m.notificationType[1].value = value.type } :
          e \in { f \in Range(items) :
                    f.event[1].id[1].value = value.eventTypeIds } } }

\* the bindings of the after snapshot have pairwise distinct identity keys
DistinctBindings ==
  Len(getEventsValues(instance)) = Cardinality(Keys(instance))

SameSnapshot == getEventsValues(before) = getEventsValues(instance)

\* C14: when deployEvents runs on a modification whose before and after
\* snapshots are equal, the diff is empty (nothing to add, nothing to
\* remove), no DELETE, PUT or GET call is issued and notificationIds stays
\* as it was.
C14_SelfDiffIsEmpty ==
  (Started /\ SameSnapshot) =>
    /\ ToAdd = <<>> /\ ToRemove = <<>>
    /\ TotalCalls("DELETE") = 0 /\ TotalCalls("PUT") = 0 /\ TotalCalls("GET") = 0
    /\ instance.notificationIds = initial.instance.notificationIds

\* a finished run on a snapshot diffed against itself in which two
\* bindings share a key
C14_Witness ==
  /\ Started /\ SameSnapshot
  /\ pc = "done"
  /\ Len(getEventsValues(instance)) = 2
  /\ Cardinality(Keys(instance)) = 1

\* the identity keys notificationIds holds
MapKeys(ids) == { p[1] : p \in ids.map }

\* notificationIds held exactly the keys of the before projection
StartedInSync ==
  /\ initial.instance.notificationIds.defined
  /\ MapKeys(initial.instance.notificationIds) = Keys(before)

\* keys whose DELETE call resolved, keys whose PUT call resolved
DeletedRemotely ==
  { NameOf(i) : i \in { j \in 1..Len(tasks) : tasks[j].outcome = "deleted" } }
CreatedRemotely ==
  { NameOf(i) : i \in { j \in 1..Len(tasks) :
      IsAdd(j) /\ tasks[j].pc # "put" /\ tasks[j].outcome # "putFailed" } }

\* C15: when notificationIds held exactly the keys of the before
\* projection, then once deployEvents has resolved it holds exactly the
\* keys of the after projection, and once every callback of a run has
\* finished it holds exactly the keys left by the remote operations that
\* completed (the before keys without those deleted, with those created).
C15_MapTracksRemoteBindings ==
  (Started /\ AllTerminal /\ StartedInSync) =>
    /\ settled = "resolved" => MapKeys(instance.notificationIds) = Keys(instance)
    /\ MapKeys(instance.notificationIds) =
         (Keys(before) \ DeletedRemotely) \cup CreatedRemotely

\* no callback of the run ended in a TypeError
NoTypeError == \A i \in 1..Len(tasks) : tasks[i].outcome # "TypeError"

\* C16: at the moment deployEvents has settled (resolved or rejected), in
\* a run without TypeError, every callback has finished: no DELETE, PUT or
\* GET call of the run is still outstanding.
C16_SettlesAfterAllFinished ==
  (settled \in {"resolved", "rejected"} /\ NoTypeError) => AllTerminal

\* the id the read-back of the scheme yields for event change i
RecordedId(i) ==
  ReadBack([page |-> TRUE, values |-> <<RemoteScheme(instance)>>],
           eventChanges[i].data.value).id

Recorded == { i \in 1..Len(tasks) : tasks[i].outcome = "recorded" }

\* notificationIds as the outcomes of the calls determine it, whatever the
\* order in which the calls completed
OutcomeMap ==
  LET start == initial.instance.notificationIds
      written == { NameOf(i) : i \in Recorded }
  IN  [defined |-> start.defined \/ \E i \in 1..Len(tasks) : IsAdd(i),
       map |-> { p \in start.map : p[1] \notin DeletedRemotely \cup written }
               \cup { <<NameOf(i), RecordedId(i)>> : i \in Recorded }]

C18_EventsOnlyAfterAppliedModification ==
  /\ Started =>
       /\ ~isDataCenter
       /\ pc \notin {"preDeploy", "deploy"}
       /\ TotalCalls("FIELDS") = 1
       /\ SchemeAction(changes) = "modify"
       /\ SchemeIndex(changes) \in Range(fieldResult.appliedChanges)
  /\ TotalCalls("DELETE") + TotalCalls("PUT") + TotalCalls("GET") > 0 => Started

\* deploy has returned for a batch of two changes whose scheme modification
\* went through the field deployment and then through deployEvents with
\* remote calls
C18_Witness ==
  /\ Started
  /\ pc = "returned"
  /\ Len(changes) = 2
  /\ TotalCalls("PUT") > 0

\* the instance carries none of the wire-only fields
DeclarativeShape(value) ==
  /\ value.schemeId = <<>>
  /\ \A e \in Range(value.notificationSchemeEvents) :
       /\ e.event = <<>>
       /\ \A n \in Range(e.notifications) : n.notificationType = <<>>

\* C19: on a client that is not Data Center, once onDeploy has run after
\* preDeploy on a notification scheme change, the instance carries no event
\* on a scheme event, no notificationType on a notification and no
\* schemeId, and its eventType, type and parameter fields are those it was
\* handed in with; neither preDeploy nor onDeploy changes notificationIds.
C19_OnDeployRestoresShape ==
  /\ []((pc = "done" /\ ~isDataCenter /\ SchemeIndex(changes) # 0) =>
          /\ DeclarativeShape(instance)
          /\ instance.notificationSchemeEvents =
               initial.instance.notificationSchemeEvents)
  /\ [][(pc' # pc /\ pc \in {"preDeploy", "returned"}) =>
          instance'.notificationIds = instance.notificationIds]_vars

\* a modification with events went through preDeploy, a deployEvents run
\* that changed notificationIds, and onDeploy
C19_Witness ==
  /\ pc = "done"
  /\ ~isDataCenter
  /\ SchemeAction(changes) = "modify"
  /\ Len(getEventsValues(instance)) = 2
  /\ instance.notificationIds # initial.instance.notificationIds

(***************************************************************************)
(* The canonical projection alone, over decoded payloads.                  *)
(***************************************************************************)
\* getEventsValues on a decoded payload: reading a property of undefined,
\* calling flatMap on a value that is no array or map on a value that is
\* no array raises a TypeError; a field that is absent reads as undefined
getEventsValuesOfPayload(value) ==
  IF ~value.isObject
  THEN [raised |-> TRUE, entries |-> <<>>]
  ELSE IF value.notificationSchemeEvents = <<>>
  THEN [raised |-> FALSE, entries |-> <<>>]
  ELSE IF ~value.notificationSchemeEvents[1].isArray
  THEN [raised |-> TRUE, entries |-> <<>>]
  ELSE LET items == value.notificationSchemeEvents[1].items
           OfEvent(event) ==
             IF event.notifications = <<>> THEN <<>>
             ELSE Map(event.notifications[1].items, LAMBDA notification :
                    [eventType |-> <<>>,   \* the payload holds event, not eventType
                     type      |-> <<>>,   \* and notificationType, not type
                     parameter |-> notification.parameter,
                     id        |-> <<notification.id>>])
       IN  IF \E event \in Range(items) :
                event.notifications # <<>> /\ ~event.notifications[1].isArray
           THEN [raised |-> TRUE, entries |-> <<>>]
           ELSE [raised |-> FALSE, entries |-> Flatten(Map(items, OfEvent))]

InitProject ==
  /\ isDataCenter = FALSE
  /\ changes = <<ModifyChange>>
  /\ before = NoInstance
  /\ instance = NoInstance
  /\ initial = [before |-> before, instance |-> instance]
  /\ pc = "project"
  /\ fieldResult = NoFieldResult
  /\ eventChanges = <<>>
  /\ tasks = <<>>
  /\ settled = "none"
  /\ calls = EmptyBag
  /\ result = NoResult
  /\ payload \in Payloads
  /\ verdict = "none"

\* getEventsValues(payload): eventChanges holds the entries it returned
Project ==
  /\ pc = "project"
  /\ pc' = "projected"
  /\ LET projection == getEventsValuesOfPayload(payload)
     IN  /\ verdict' = IF projection.raised THEN "raised" ELSE "returned"
         /\ eventChanges' = projection.entries
  /\ UNCHANGED <<isDataCenter, changes, before, instance, initial, fieldResult,
                 tasks, settled, calls, result, payload>>

SpecProject == InitProject /\ [][Project]_vars

\* C20: the projection raises an error for every snapshot that fails shape
\* validation, and returns entries only for a snapshot that passes it.
C20_ProjectionRejectsInvalid ==
  pc = "projected" => (verdict = "raised" <=> ~isNotificationScheme(payload))

\* the event type of the after entry with this identity key
EventTypeOfKey(key) ==
  (CHOOSE e \in Range(getEventsValues(instance)) : getEventKey(e) = key).eventType

\* the notification descriptors, in snapshot order, of every scheme event
\* of the after snapshot that has this event type
DescriptorsOf(eventType) ==
  LET sameType == SelectSeq(instance.notificationSchemeEvents,
                            LAMBDA event : event.eventType = eventType)
  IN  Flatten(Map(sameType, LAMBDA event :
        Map(event.notifications, LAMBDA n :
          [notificationType |-> <<EVENT_TYPES(n.type)>>,
           parameter |-> n.parameter])))

\* C21: the body of every PUT call holds exactly one event object, whose
\* event id is the event type of the added entry and whose notifications
\* are exactly the descriptors (notificationType and parameter) of all
\* scheme events of the after snapshot that have that event type.
C21_CreateBodyCarriesEventType ==
  \A c \in BagToSet(calls) :
    c.method = "PUT" =>
      LET events == c.body[1].notificationSchemeEvents
      IN  /\ Len(events) = 1
          /\ events[1].event.id = EventTypeOfKey(c.name)
          /\ events[1].notifications = DescriptorsOf(EventTypeOfKey(c.name))

\* a PUT call was issued for an after snapshot that has scheme events of
\* two event types, one of them with a mapped channel type
C21_Witness ==
  /\ \E c \in BagToSet(calls) :
       /\ c.method = "PUT"
       /\ \E n \in Range(c.body[1].notificationSchemeEvents[1].notifications) :
            n.notificationType = <<"Group_Custom_Field_Value">>
  /\ Cardinality(EventTypesOf(instance)) = 2

\* C22: the callbacks of one deployEvents run are about pairwise distinct
\* identity keys, and a step changes notificationIds under a key only when
\* it is the step in which the one callback of that key finishes its DELETE
\* or its read-back; so each key is written or deleted by at most one
\* operation of the run, also when the snapshots hold duplicate bindings.
C22_OneWriterPerKey ==
  /\ [](\A i, j \in 1..Len(eventChanges) : NameOf(i) = NameOf(j) => i = j)
  /\ [][\A key \in MapKeys(instance.notificationIds)
                     \cup MapKeys(instance'.notificationIds) :
          Lookup(instance'.notificationIds, key) # Lookup(instance.notificationIds, key) =>
            \E i \in 1..Len(tasks) :
              /\ NameOf(i) = key
              /\ tasks[i].pc \in {"delete", "get"}
              /\ tasks'[i].pc = "done"]_vars

\* a finished run on an after snapshot with two bindings of one key, in
\* which a removal deleted its key and the addition recorded its id
C22_Witness ==
  /\ Started /\ AllTerminal
  /\ Len(getEventsValues(instance)) = 2
  /\ Cardinality(Keys(instance)) = 1
  /\ Recorded # {}
  /\ DeletedRemotely # {}

\* ids of the notifications of the read-back scheme whose event type,
\* channel type and parameter are those of event change i
OwnIds(i) ==
  LET value == eventChanges[i].data.value
      items == RemoteScheme(instance).notificationSchemeEvents[1].items
  IN  { n.id : n \in UNION {
          { m \in Range(e.notifications[1].items) :
              /\ m.notificationType[1].value = value.type
              /\ m.parameter = value.typeField } :
          e \in { f \in Range(items) :
                    f.event[1].id[1].value = value.eventTypeIds } } }

\* ids addressed by the DELETE calls of the run that resolved
DeletedIds ==
  { tasks[i].notificationId : i \in { j \in 1..Len(tasks) :
                                        tasks[j].outcome = "deleted" } }

\* C23: once every callback of a run has finished, the id recorded for an
\* added entry is the id of a remote notification with the entry's event
\* type, channel type and parameter, no two keys of notificationIds hold
\* the same id, and no key holds an id whose notification the run deleted.
C23_RecordedIdIsOwn ==
  (Started /\ AllTerminal) =>
    /\ \A i \in Recorded : \E id \in OwnIds(i) : CurrentId(NameOf(i)) = <<id>>
    /\ \A p, q \in instance.notificationIds.map : p[2] = q[2] => p[1] = q[1]
    /\ \A p \in instance.notificationIds.map : <<p[2]>> \notin DeletedIds

\* C24: every DELETE call is addressed by a defined notification id, the
\* one notificationIds held under the removed entry's identity key when the
\* call was made; no DELETE call is issued for a key notificationIds does
\* not hold.
C24_DeleteAddressedByStoredId ==
  \A c \in BagToSet(calls) :
    c.method = "DELETE" =>
      /\ c.notificationId # <<>>
      /\ c.notificationId = InitialId(c.name)

\* number of times change k is listed in a list of changes
Occurs(list, k) == Cardinality({ i \in DOMAIN list : list[i] = k })

\* C25: when deploy returns on a client that is not Data Center, every
\* change of the batch is reported exactly once: a change that is no
\* notification scheme change is listed once in leftoverChanges and nowhere
\* else, and a notification scheme change is listed either once in
\* appliedChanges or once in errors, and not in leftoverChanges; without a
\* scheme change no remote call is made.
C25_EveryChangeReportedOnce ==
  (result.returned /\ ~isDataCenter) =>
    /\ \A k \in 1..Len(changes) :
         IF isSchemeChange(changes[k])
         THEN /\ Occurs(result.leftoverChanges, k) = 0
              /\ Occurs(result.appliedChanges, k) + Occurs(result.errors, k) = 1
         ELSE /\ Occurs(result.leftoverChanges, k) = 1
              /\ Occurs(result.appliedChanges, k) + Occurs(result.errors, k) = 0
    /\ SchemeIndex(changes) = 0 => calls = EmptyBag

(***************************************************************************)
(* deployEvents alone, called by deploy on a modification whose field      *)
(* deployment was applied, under the assumption that every remote call     *)
(* that is outstanding eventually resolves or rejects.                     *)
(***************************************************************************)
InitEvents ==
  /\ isDataCenter = FALSE
  /\ changes = <<ModifyChange>>
  /\ \E eb \in EventSeqs : \E ea \in EventSeqs :
       \E ids \in IdMaps(eb) : \E id \in SchemeIds :
         /\ WithinSize(eb, ea, changes)
         /\ LeastFirst(eb, ea)
         /\ before = InstanceValue(<<id>>, eb, ids)
         /\ instance = preDeployValue(InstanceValue(<<id>>, ea, ids), ModifyChange)
         /\ initial = [before |-> before,
                       instance |-> InstanceValue(<<id>>, ea, ids)]
         /\ calls = SetToBag({ Call("FIELDS", "", <<id>>, <<>>, <<>>) })
  /\ pc = "fields"
  /\ fieldResult = deployChanges(<<1>>, TRUE)
  /\ eventChanges = <<>>
  /\ tasks = <<>>
  /\ settled = "none"
  /\ result = NoResult
  /\ payload = UndefinedPayload
  /\ verdict = "none"

NextEvents ==
  \/ DeployEventsStart
  \/ DeleteResolve
  \/ PutResolve
  \/ GetReject
  \/ GetResolve

\* every outstanding remote call is eventually answered; nothing is assumed
\* about when deploy makes the call to deployEvents
Fairness ==
  /\ WF_vars(DeleteResolve)
  /\ WF_vars(PutResolve)
  /\ WF_vars(GetReject \/ GetResolve)

SpecEvents == InitEvents /\ [][NextEvents]_vars /\ Fairness

\* C26: when every remote call eventually resolves or rejects, a
\* deployEvents run that is pending eventually settles, and at every moment
\* it has issued at most one DELETE call per removed entry and at most one
\* PUT call and one GET call per added entry.
C26_SettlesWithoutRetry ==
  /\ [](\A i \in 1..Len(eventChanges) :
          IF IsAdd(i)
          THEN /\ CountCalls("PUT", NameOf(i)) <= 1
               /\ CountCalls("GET", NameOf(i)) <= 1
               /\ CountCalls("DELETE", NameOf(i)) = 0
          ELSE /\ CountCalls("DELETE", NameOf(i)) <= 1
               /\ CountCalls("PUT", NameOf(i)) = 0
               /\ CountCalls("GET", NameOf(i)) = 0)
  /\ (settled = "pending") ~> (settled \in {"resolved", "rejected"})

\* a run of three callbacks has resolved after each of its calls resolved
C26_Witness ==
  /\ settled = "resolved"
  /\ Len(tasks) = 3
  /\ TotalCalls("DELETE") = 1 /\ TotalCalls("PUT") = 2 /\ TotalCalls("GET") = 2
=============================================================================
